---- MODULE Spec2Model ----
(***************************************************************************)
(* DataFrameMapper (sklearn_pandas/dataframe_mapper.py) as a state machine. *)
(*                                                                         *)
(* The mapper object is its attribute dictionary: a function whose domain  *)
(* is the set of attributes that have been assigned.  Reading an attribute *)
(* outside the domain is Python's AttributeError.  Python values are       *)
(* tagged records.  Arrays are abstracted to their rank, their             *)
(* representation (dense ndarray / sparse csr) and the ordered list of     *)
(* their columns; a table is abstracted to its container type, its column  *)
(* names, the number of distinct values of its columns (card) and whether  *)
(* it holds NaN.  A list input is a list of row Series.  Selecting a       *)
(* column the table does not hold raises KeyError.                         *)
(*                                                                         *)
(* Every method is an operator from the object and the arguments to the    *)
(* object after the call and the value returned or the exception raised.   *)
(***************************************************************************)
EXTENDS Integers, Sequences, FiniteSets, TLC

VARIABLES
    self,     \* the mapper's attribute dictionary
    origin,   \* "__init__" or "__setstate__": how the object was set up
    call,     \* the last call: its name, and the input of a transform
    ret,      \* what the last call returned or raised
    lastfit,  \* how the last fit call on this object ended, "none" before
    everfit   \* whether a fit call has completed on the mapper

vars == <<self, origin, call, ret, lastfit, everfit>>

(* ---------------------------- bounds ----------------------------------- *)

\* longest feature list a mapper is built with
MaxFeatures == 2
\* largest number of distinct values of a column
MaxCard == 2

(* ------------------------- Python values ------------------------------- *)

NoneVal == [tag |-> "None"]
Str(s) == [tag |-> "str", s |-> s]
List(xs) == [tag |-> "list", items |-> xs]
Tuple(c, t) == [tag |-> "tuple", columns |-> c, transformers |-> t]
PyInt(n) == [tag |-> "int", n |-> n]
Array(v) == [tag |-> "ndarray", v |-> v]
SelfVal == [tag |-> "self"]

Return(v) == [status |-> "return", exc |-> "", value |-> v]
Raise(e) == [status |-> "raise", exc |-> e, value |-> NoneVal]

\* the outcome of a method call: the object after it, and its result
After(obj, r) == [k \in {"obj", "status", "exc", "value"} |->
                    IF k = "obj" THEN obj ELSE r[k]]
Result(m) == [k \in {"status", "exc", "value"} |-> m[k]]

HasAttr(obj, k) == k \in DOMAIN obj
SetAttr(obj, k, v) == [x \in (DOMAIN obj) \cup {k} |-> IF x = k THEN v ELSE obj[x]]

RECURSIVE Sum(_)
Sum(s) == IF s = <<>> THEN 0 ELSE Head(s) + Sum(Tail(s))

RECURSIVE Concat(_)
Concat(ss) == IF ss = <<>> THEN <<>> ELSE Head(ss) \o Concat(Tail(ss))

SeqsUpTo(S, n) == UNION {[1..k -> S] : k \in 0..n}

(* ----------------------------- tables ---------------------------------- *)

Columns == {"a", "b"}

\* a column of an array: the table column it came from, and for a one-hot
\* indicator column the category it stands for (0: the raw values)
Col(c, k) == [col |-> c, k |-> k]

\* the primary input: a DataFrame, a list of row Series, or a DataWrapper
Table(kind, columns, card, nan) ==
    [kind |-> kind, columns |-> columns, card |-> card, nan |-> nan]

Inputs ==
    {Table("DataFrame", Columns, n, FALSE) : n \in 1..MaxCard}
    \cup {Table("DataFrame", {"a"}, 1, FALSE),
          Table("DataFrame", Columns, 1, TRUE),
          Table("list", Columns, 1, FALSE),
          Table("DataWrapper", Columns, 1, FALSE)}

\* the target argument y of fit and extract_y
NoTarget == [kind |-> "None", columns |-> {}, card |-> 1, nan |-> FALSE]
Targets ==
    {NoTarget,
     Table("DataFrame", {"a", "b"}, 1, FALSE),
     Table("Series", {"b"}, 1, FALSE)}

\* pd.Series.to_frame(): a one-column frame named after the series
to_frame(y) == [y EXCEPT !.kind = "DataFrame"]

(* --------------------------- transformers ------------------------------ *)
(* Transformer objects are supplied by the caller.  Two kinds stand for    *)
(* them: "OneHot" learns the categories of its input at fit and returns a  *)
(* sparse indicator matrix with one column per learned category of every   *)
(* input column; "Encoder" takes a vector and returns a vector.  Both      *)
(* reject NaN, and refuse to transform before they are fitted.             *)

Est(kind) == [tag |-> "estimator", kind |-> kind, fitted |-> 0]

Dense(ndim, cols, card, nan) ==
    [tag |-> "ndarray", ndim |-> ndim, cols |-> cols, card |-> card, nan |-> nan]

\* transformer.fit(arr): the object after the call, and how the call ended
EstFit(est, arr) ==
    IF arr.nan THEN [obj |-> est, status |-> "raise", exc |-> "ValueError"]
    ELSE IF est.kind = "Encoder" /\ arr.ndim # 1
         THEN [obj |-> est, status |-> "raise", exc |-> "ValueError"]
    ELSE [obj |-> [est EXCEPT !.fitted = arr.card], status |-> "return", exc |-> ""]

\* transformer.transform(arr)
EstTransform(est, arr) ==
    IF est.fitted = 0 THEN Raise("NotFittedError")
    ELSE IF arr.nan THEN Raise("ValueError")
    ELSE IF est.kind = "Encoder"
         THEN IF arr.ndim # 1 THEN Raise("ValueError")
              ELSE Return(Dense(1, arr.cols, arr.card, FALSE))
    ELSE Return([tag |-> "csr", ndim |-> 2,
                 cols |-> Concat([i \in 1..Len(arr.cols) |->
                                    [j \in 1..est.fitted |-> Col(arr.cols[i].col, j)]]),
                 card |-> 2, nan |-> FALSE])

\* make_transformer_pipeline(*transformers): one sequential pipeline
make_transformer_pipeline(items) == [tag |-> "pipeline", steps |-> items]

\* Pipeline.fit: fit each step on the output of the steps before it
RECURSIVE PipelineFit(_, _, _)
PipelineFit(steps, i, arr) ==
    IF i > Len(steps) THEN [obj |-> steps, status |-> "return", exc |-> ""]
    ELSE LET f == EstFit(steps[i], arr)
             fitted == [steps EXCEPT ![i] = f.obj]
         IN IF f.status = "raise"
            THEN [obj |-> fitted, status |-> "raise", exc |-> f.exc]
            ELSE IF i = Len(steps)
                 THEN [obj |-> fitted, status |-> "return", exc |-> ""]
            ELSE LET t == EstTransform(f.obj, arr)
                 IN IF t.status = "raise"
                    THEN [obj |-> fitted, status |-> "raise", exc |-> t.exc]
                    ELSE PipelineFit(fitted, i + 1, t.value)

\* Pipeline.transform: each step in turn
RECURSIVE PipelineTransform(_, _, _)
PipelineTransform(steps, i, arr) ==
    IF i > Len(steps) THEN Return(arr)
    ELSE LET t == EstTransform(steps[i], arr)
         IN IF t.status = "raise" THEN t
            ELSE PipelineTransform(steps, i + 1, t.value)

\* transformers.fit(Xt), for a transformer object or a pipeline
TFit(t, arr) ==
    IF t.tag = "pipeline"
    THEN LET p == PipelineFit(t.steps, 1, arr)
         IN [obj |-> [t EXCEPT !.steps = p.obj], status |-> p.status, exc |-> p.exc]
    ELSE EstFit(t, arr)

\* transformers.transform(Xt)
TTransform(t, arr) ==
    IF t.tag = "pipeline" THEN PipelineTransform(t.steps, 1, arr)
    ELSE EstTransform(t, arr)

(* ----------------------- module-level helpers -------------------------- *)

\* sparse.issparse(fea)
issparse(fea) == fea.tag = "csr"

\* fea.shape[1] of a rank-2 array
Width(fea) == Len(fea.cols)

\* _handle_feature: a 1-dimensional array becomes a column vector
_handle_feature(fea) ==
    IF fea.ndim = 1 THEN [fea EXCEPT !.ndim = 2] ELSE fea

\* _build_transformer: a list of transformers becomes one pipeline
_build_transformer(transformers) ==
    IF transformers.tag = "list"
    THEN make_transformer_pipeline(transformers.items)
    ELSE transformers

(* ------------------------- DataFrameMapper ----------------------------- *)

\* __init__(self, features, y_feature=None, sparse=False)
__init__(features, y_feature, sparse) ==
    LET fs == IF features.tag = "str" THEN <<features>> ELSE features.items
        built == [i \in 1..Len(fs) |->
                    IF fs[i].tag = "str" THEN Tuple(fs[i], NoneVal)
                    ELSE Tuple(fs[i].columns, _build_transformer(fs[i].transformers))]
        yf == IF y_feature.tag = "None" THEN NoneVal
              ELSE IF y_feature.tag = "str" THEN Tuple(y_feature, NoneVal)
              ELSE Tuple(y_feature.columns, _build_transformer(y_feature.transformers))
    IN [features |-> built, feature_widths_ |-> NoneVal, y_feature |-> yf,
        sparse |-> sparse]

\* __setstate__(self, state) on the bare object unpickling allocates
__setstate__(state) ==
    LET fs == state["features"]
        built == [i \in 1..Len(fs) |->
                    Tuple(fs[i].columns, _build_transformer(fs[i].transformers))]
    IN [features |-> built,
        sparse |-> IF HasAttr(state, "sparse") THEN state["sparse"] ELSE FALSE]

\* _get_col_subset(self, X, cols)
_get_col_subset(X, cols) ==
    LET return_vector == cols.tag = "str"
        names == IF return_vector THEN <<cols.s>> ELSE cols.items
        found == \A i \in 1..Len(names) : names[i] \in X.columns
        t == Dense(IF return_vector THEN 1 ELSE 2,
                   [i \in 1..Len(names) |-> Col(names[i], 0)], X.card, X.nan)
    IN IF found THEN Return(t) ELSE Raise("KeyError")

\* the frame the target is read from: y, y.to_frame(), or X after
\* assert isinstance(X, pd.DataFrame)
TargetFrame(X, y) ==
    IF y.kind = "DataFrame" THEN Return(y)
    ELSE IF y.kind = "Series" THEN Return(to_frame(y))
    ELSE IF X.kind = "DataFrame" THEN Return(X)
    ELSE Raise("AssertionError")

\* extract_y(self, X, y=None)
extract_y(obj, X, y) ==
    IF ~HasAttr(obj, "y_feature") THEN After(obj, Raise("AttributeError"))
    ELSE IF y.kind = "None" /\ obj.y_feature.tag = "None"
         THEN After(obj, Return(NoneVal))
    ELSE IF obj.y_feature.tag = "None" THEN After(obj, Raise("ValueError"))
    ELSE LET df == TargetFrame(X, y)
             y_columns == obj.y_feature.columns
             y_transformers == obj.y_feature.transformers
         IN IF df.status = "raise" THEN After(obj, df)
            ELSE LET yt == _get_col_subset(df.value, y_columns)
                 IN IF yt.status = "raise" THEN After(obj, yt)
                    ELSE IF y_transformers.tag # "None"
                         THEN After(obj, TTransform(y_transformers, yt.value))
                    ELSE After(obj, yt)

\* FitFeature measuring the width of the selected columns, not of the
\* transformer's output
FitFeature_rawwidth(feature, X) ==
    LET Xt == _get_col_subset(X, feature.columns)
    IN IF Xt.status = "raise"
       THEN [feature |-> feature, status |-> "raise", exc |-> Xt.exc, width |-> 0]
       ELSE IF feature.transformers.tag = "None"
            THEN [feature |-> feature, status |-> "return", exc |-> "",
                  width |-> Width(_handle_feature(Xt.value))]
       ELSE LET f == TFit(feature.transformers, Xt.value)
            IN [feature |-> [feature EXCEPT !.transformers = f.obj],
                status |-> f.status, exc |-> f.exc,
                width |-> Width(_handle_feature(Xt.value))]

\* one pass of fit's loop body (lines 211-218): the feature with its
\* transformer fitted in place, the width measured, how the pass ended
FitFeature(feature, X) ==
    LET columns == feature.columns
        transformers == feature.transformers
        Xt == _get_col_subset(X, columns)
    IN IF Xt.status = "raise"
       THEN [feature |-> feature, status |-> "raise", exc |-> Xt.exc, width |-> 0]
       ELSE IF transformers.tag = "None"
            THEN [feature |-> feature, status |-> "return", exc |-> "",
                  width |-> Width(_handle_feature(Xt.value))]
       ELSE LET f == TFit(transformers, Xt.value)
                fitted == [feature EXCEPT !.transformers = f.obj]
            IN IF f.status = "raise"
               THEN [feature |-> fitted, status |-> "raise", exc |-> f.exc, width |-> 0]
               ELSE LET Xt2 == TTransform(f.obj, Xt.value)
                    IN IF Xt2.status = "raise"
                       THEN [feature |-> fitted, status |-> "raise", exc |-> Xt2.exc,
                             width |-> 0]
                       ELSE [feature |-> fitted, status |-> "return", exc |-> "",
                             width |-> Width(_handle_feature(Xt2.value))]

\* the loop of fit over self.features (lines 208-218): the features as far
\* as the loop got, the list feature_widths, how the loop ended
RECURSIVE FitFeatures(_, _, _, _)
FitFeatures(features, i, X, feature_widths) ==
    IF i > Len(features)
    THEN [features |-> features, feature_widths |-> feature_widths,
          status |-> "return", exc |-> ""]
    ELSE LET p == FitFeature(features[i], X)
             fs == [features EXCEPT ![i] = p.feature]
         IN IF p.status = "raise"
            THEN [features |-> fs, feature_widths |-> feature_widths,
                  status |-> "raise", exc |-> p.exc]
            ELSE FitFeatures(fs, i + 1, X, Append(feature_widths, p.width))

\* StoreWidths appending to the widths of the previous fit
StoreWidths_append(obj, feature_widths) ==
    IF HasAttr(obj, "feature_widths_") /\ obj.feature_widths_.tag = "ndarray"
    THEN SetAttr(obj, "feature_widths_", Array(obj.feature_widths_.v \o feature_widths))
    ELSE SetAttr(obj, "feature_widths_", Array(feature_widths))

\* the assignment of fit's line 219
StoreWidths(obj, feature_widths) ==
    SetAttr(obj, "feature_widths_", Array(feature_widths))

\* the target part of fit (lines 221-234), on the object the loop left
FitTarget(obj, X, y) ==
    IF ~HasAttr(obj, "y_feature") THEN After(obj, Raise("AttributeError"))
    ELSE IF obj.y_feature.tag = "None" THEN After(obj, Return(SelfVal))
    ELSE LET df == TargetFrame(X, y)
             y_columns == obj.y_feature.columns
             y_transformers == obj.y_feature.transformers
         IN IF df.status = "raise" THEN After(obj, df)
            ELSE IF y_transformers.tag = "None" THEN After(obj, Return(SelfVal))
            ELSE LET yt == _get_col_subset(df.value, y_columns)
                 IN IF yt.status = "raise" THEN After(obj, yt)
                    ELSE LET f == TFit(y_transformers, yt.value)
                         IN After([obj EXCEPT !.y_feature.transformers = f.obj],
                                  IF f.status = "raise" THEN Raise(f.exc)
                                  ELSE Return(SelfVal))

\* fit after its loop: the widths are stored only if the loop completed
FitAfterLoop(obj, loop, X, y) ==
    IF loop.status = "raise"
    THEN After([obj EXCEPT !.features = loop.features], Raise(loop.exc))
    ELSE FitTarget(StoreWidths([obj EXCEPT !.features = loop.features],
                               loop.feature_widths), X, y)

\* fit(self, X, y=None)
fit(obj, X, y) == FitAfterLoop(obj, FitFeatures(obj.features, 1, X, <<>>), X, y)

\* one pass of transform's loop body (lines 244-250)
ExtractFeature(feature, X) ==
    LET columns == feature.columns
        transformers == feature.transformers
        Xt == _get_col_subset(X, columns)
    IN IF Xt.status = "raise" THEN Xt
       ELSE IF transformers.tag = "None" THEN Return(_handle_feature(Xt.value))
       ELSE LET Xt2 == TTransform(transformers, Xt.value)
            IN IF Xt2.status = "raise" THEN Xt2
               ELSE Return(_handle_feature(Xt2.value))

\* the loop of transform over self.features: the list `extracted`
RECURSIVE Extract(_, _, _, _)
Extract(features, i, X, extracted) ==
    IF i > Len(features) THEN Return(extracted)
    ELSE LET fea == ExtractFeature(features[i], X)
         IN IF fea.status = "raise" THEN fea
            ELSE Extract(features, i + 1, X, Append(extracted, fea.value))

\* Stack returning the sparse result whatever the mapper's flag
Stack_ignoreflag(extracted, sparse) ==
    LET cols == Concat([i \in 1..Len(extracted) |-> extracted[i].cols])
    IN IF \E i \in 1..Len(extracted) : issparse(extracted[i])
       THEN Return([tag |-> "csr", ndim |-> 2, cols |-> cols])
       ELSE IF extracted = <<>> THEN Raise("ValueError")
            ELSE Return([tag |-> "ndarray", ndim |-> 2, cols |-> cols])

\* the combination of the extracted features (lines 259-266)
Stack(extracted, sparse) ==
    LET cols == Concat([i \in 1..Len(extracted) |-> extracted[i].cols])
    IN IF \E i \in 1..Len(extracted) : issparse(extracted[i])
       THEN IF ~sparse
            THEN Return([tag |-> "ndarray", ndim |-> 2, cols |-> cols])
            ELSE Return([tag |-> "csr", ndim |-> 2, cols |-> cols])
       ELSE IF extracted = <<>> THEN Raise("ValueError")
            ELSE Return([tag |-> "ndarray", ndim |-> 2, cols |-> cols])

\* transform(self, X)
transform(obj, X) ==
    LET e == Extract(obj.features, 1, X, <<>>)
    IN IF e.status = "raise" THEN After(obj, e)
       ELSE After(obj, Stack(e.value, obj.sparse))

(* ------------------------ provenance properties ------------------------ *)

\* np.cumsum of a list
RECURSIVE cumsum(_)
cumsum(s) ==
    IF s = <<>> THEN <<>>
    ELSE LET front == cumsum(SubSeq(s, 1, Len(s) - 1))
         IN Append(front, (IF front = <<>> THEN 0 ELSE front[Len(front)]) + s[Len(s)])

\* reading self.feature_widths_ as a sequence: list(...), zip(...), np.sum(...)
Widths(obj) ==
    IF ~HasAttr(obj, "feature_widths_") THEN Raise("AttributeError")
    ELSE IF obj.feature_widths_.tag = "None" THEN Raise("TypeError")
    ELSE Return(obj.feature_widths_.v)

\* feature_indices_ without the leading 0
feature_indices_noprefix(obj) ==
    LET w == Widths(obj)
    IN IF w.status = "raise" THEN w ELSE Return(Array(cumsum(w.value)))

\* np.cumsum([0] + list(self.feature_widths_))
feature_indices_(obj) ==
    LET w == Widths(obj)
    IN IF w.status = "raise" THEN w ELSE Return(Array(cumsum(<<0>> \o w.value)))

\* np.sum(None) is None: no reduction is applied to a single object
X_n_features_(obj) ==
    IF ~HasAttr(obj, "feature_widths_") THEN Raise("AttributeError")
    ELSE IF obj.feature_widths_.tag = "None" THEN Return(NoneVal)
    ELSE Return(PyInt(Sum(obj.feature_widths_.v)))

\* X_features_ listing each feature once instead of once per output column
X_features_norepeat(obj) ==
    LET w == Widths(obj)
    IN IF w.status = "raise" THEN w
       ELSE Return(Array([i \in 1..Len(w.value) |-> obj.features[i]]))

\* np.array(rs, dtype=object) is kept as the list rs of (columns,
\* transformers) pairs it is built from
X_features_(obj) ==
    LET w == Widths(obj)
    IN IF w.status = "raise" THEN w
       ELSE Return(Array(Concat([i \in 1..Len(w.value) |->
                                   [j \in 1..w.value[i] |-> obj.features[i]]])))

\* self.X_features_[:, 0]; an empty X_features_ has one dimension only
X_columns_(obj) ==
    LET f == X_features_(obj)
    IN IF f.status = "raise" THEN f
       ELSE IF f.value.v = <<>> THEN Raise("IndexError")
       ELSE Return(Array([c \in 1..Len(f.value.v) |-> f.value.v[c].columns]))

(* --------------------------- state machine ----------------------------- *)

\* the feature arguments a mapper is built from
RawFeatures ==
    {Str("b"),
     Tuple(List(<<"b", "a">>), NoneVal),
     Tuple(List(<<>>), NoneVal),
     Tuple(Str("a"), List(<<Est("Encoder"), Est("OneHot")>>))}

RawTargets == {NoneVal, Str("a"), Tuple(Str("b"), Est("Encoder"))}

\* the (columns, transformers) pairs of a persisted mapper
PersistedFeatures ==
    {Tuple(Str("b"), NoneVal),
     Tuple(List(<<"b", "a">>), NoneVal),
     Tuple(List(<<>>), NoneVal),
     Tuple(Str("a"), List(<<Est("Encoder"), Est("OneHot")>>))}

\* legacy persisted states: no 'sparse' key, transformer lists not yet composed
PersistedStates ==
    {[features |-> fs] : fs \in SeqsUpTo(PersistedFeatures, MaxFeatures)}

NoTable == [kind |-> "none"]
Call(op, X) == [op |-> op, X |-> X]
Properties == {"feature_indices_", "X_n_features_", "X_features_", "X_columns_"}

Init ==
    /\ \/ /\ \E features \in {Str("b")} \cup
                             {List(fs) : fs \in SeqsUpTo(RawFeatures, MaxFeatures)},
                y_feature \in RawTargets, sparse \in BOOLEAN :
                self = __init__(features, y_feature, sparse)
          /\ origin = "__init__"
       \/ /\ \E state \in PersistedStates : self = __setstate__(state)
          /\ origin = "__setstate__"
    /\ call = Call("new", NoTable)
    /\ ret = Return(NoneVal)
    /\ lastfit = "none"
    /\ everfit = FALSE

\* the object and the result after a method call
Called(m) == self' = m.obj /\ ret' = Result(m)

Fitted(m) ==
    /\ Called(m)
    /\ lastfit' = m.status
    /\ everfit' = (everfit \/ m.status = "return")

Fit(X, y) ==
    /\ Fitted(fit(self, X, y))
    /\ call' = Call("fit", NoTable)
    /\ UNCHANGED origin

Transform(X) ==
    /\ Called(transform(self, X))
    /\ call' = Call("transform", X)
    /\ UNCHANGED <<origin, lastfit, everfit>>

ExtractY(X, y) ==
    /\ Called(extract_y(self, X, y))
    /\ call' = Call("extract_y", NoTable)
    /\ UNCHANGED <<origin, lastfit, everfit>>

GetProperty(p) ==
    /\ ret' = CASE p = "feature_indices_" -> feature_indices_(self)
                [] p = "X_n_features_" -> X_n_features_(self)
                [] p = "X_features_" -> X_features_(self)
                [] p = "X_columns_" -> X_columns_(self)
    /\ call' = Call(p, NoTable)
    /\ UNCHANGED <<self, origin, lastfit, everfit>>

\* a pickle round trip: the attribute dictionary is the persisted state
Unpickle ==
    /\ self' = __setstate__(self)
    /\ origin' = "__setstate__"
    /\ lastfit' = "none"
    /\ call' = Call("__setstate__", NoTable)
    /\ ret' = Return(NoneVal)
    /\ UNCHANGED everfit

Next ==
    \/ \E X \in Inputs, y \in Targets : Fit(X, y)
    \/ \E X \in Inputs : Transform(X)
    \/ \E X \in Inputs, y \in Targets : ExtractY(X, y)
    \/ \E p \in Properties : GetProperty(p)
    \/ Unpickle

Spec == Init /\ [][Next]_vars

(* ------------------------------ claims --------------------------------- *)

\* the column names a selector addresses
SelectorNames(columns) == IF columns.tag = "str" THEN <<columns.s>> ELSE columns.items

\* X holds every column the mapper's selectors address, and data the
\* transformers accept
Compatible(X) ==
    /\ ~X.nan
    /\ \A i \in 1..Len(self.features) :
          \A k \in 1..Len(SelectorNames(self.features[i].columns)) :
             SelectorNames(self.features[i].columns)[k] \in X.columns

WidthsSet == HasAttr(self, "feature_widths_") /\ self.feature_widths_.tag = "ndarray"

\* the widths state, "unset" while the attribute does not exist
WidthsState ==
    IF HasAttr(self, "feature_widths_") THEN self.feature_widths_ ELSE [tag |-> "unset"]

\* arr[k], counting from 0 as the source does
At(arr, k) == arr.v[k + 1]

\* a transform call on a compatible input, with the last fit call successful
TransformAfterFit ==
    call.op = "transform" /\ lastfit = "return" /\ Compatible(call.X)

\* C1, as stated: for every Mapper, after a successful fit a transform on a
\* compatible input returns a matrix with sum(feature_widths_) columns.
C1_TransformWidth_AnyMapper ==
    TransformAfterFit =>
       /\ ret.status = "return"
       /\ Len(ret.value.cols) = Sum(self.feature_widths_.v)
       /\ X_n_features_(self) = Return(PyInt(Len(ret.value.cols)))

\* C1, amended: for every Mapper with at least one Feature Spec, after a
\* successful fit a transform on a compatible input returns a matrix whose
\* number of columns is sum(feature_widths_) = X_n_features_.
C1_TransformWidth ==
    (TransformAfterFit /\ self.features # <<>>) =>
       /\ ret.status = "return"
       /\ Len(ret.value.cols) = Sum(self.feature_widths_.v)
       /\ X_n_features_(self) = Return(PyInt(Len(ret.value.cols)))

\* a list selector beside a width-changing transformer: 2 + 2 columns
C1_Witness ==
    /\ TransformAfterFit
    /\ Len(self.features) = 2
    /\ self.features[1].transformers.tag = "None"
    /\ self.features[2].transformers.tag = "pipeline"
    /\ ret.status = "return"
    /\ self.feature_widths_.v = <<2, 2>>
    /\ Len(ret.value.cols) = 4

\* C2, as stated: a transform call on a Mapper on which no fit has completed
\* fails instead of returning a matrix.
C2_TransformBeforeFitFails ==
    (call.op = "transform" /\ ~everfit) => ret.status = "raise"

\* C3, as stated: a fit call that fails leaves feature_widths_ as it was
\* before the call (unset if it was unset).
C3_FailedFitKeepsWidths ==
    [][(call'.op = "fit" /\ ret'.status = "raise") => WidthsState' = WidthsState]_vars

\* the width a feature produces with its transformer as it is fitted now
CurrentWidth(feature) ==
    Width(ExtractFeature(feature, Table("DataFrame", Columns, 1, FALSE)).value)

\* after a successful fit: one width per Feature Spec, in order, each the
\* width of the feature as fitted by that fit
WidthsOfLastFit ==
    /\ WidthsSet
    /\ Len(self.feature_widths_.v) = Len(self.features)
    /\ \A i \in 1..Len(self.features) :
          self.feature_widths_.v[i] = CurrentWidth(self.features[i])

\* C4, as stated: after successful fits feature_widths_ has one entry per
\* Feature Spec, in order, from the most recent fit only, each a positive
\* integer.
C4_WidthsPositive ==
    lastfit = "return" =>
       /\ WidthsOfLastFit
       /\ \A i \in 1..Len(self.feature_widths_.v) :
             self.feature_widths_.v[i] \in Nat /\ self.feature_widths_.v[i] > 0

\* C4, amended: after successful fits feature_widths_ has one entry per
\* Feature Spec, in order, from the most recent fit only, each a
\* non-negative integer (0 for a feature that selects an empty column list).
C4_Widths ==
    lastfit = "return" =>
       /\ WidthsOfLastFit
       /\ \A i \in 1..Len(self.feature_widths_.v) : self.feature_widths_.v[i] \in Nat

\* a pipeline fitted on two categories beside an empty column list
C4_Witness ==
    /\ lastfit = "return"
    /\ Len(self.features) = 2
    /\ self.features[1].transformers.tag = "pipeline"
    /\ self.features[2].columns = List(<<>>)
    /\ self.feature_widths_.v = <<2, 0>>

\* C5: after a successful fit feature_indices_ has one entry more than there
\* are Feature Specs, starts at 0, is non-decreasing, its consecutive
\* differences are the widths, and its last entry is X_n_features_.
C5_FeatureIndices ==
    lastfit = "return" =>
       /\ feature_indices_(self).status = "return"
       /\ Len(feature_indices_(self).value.v) = Len(self.features) + 1
       /\ At(feature_indices_(self).value, 0) = 0
       /\ \A i \in 0..(Len(self.features) - 1) :
             /\ At(feature_indices_(self).value, i) <= At(feature_indices_(self).value, i + 1)
             /\ At(feature_indices_(self).value, i + 1) - At(feature_indices_(self).value, i)
                   = At(self.feature_widths_, i)
       /\ X_n_features_(self) =
             Return(PyInt(At(feature_indices_(self).value, Len(self.features))))

\* offsets 0, 1, 3 read after a fit of a vector and a two-column feature
C5_Witness ==
    /\ lastfit = "return"
    /\ call.op = "feature_indices_"
    /\ ret = Return(Array(<<0, 1, 3>>))

\* C6: after a successful fit X_features_ has X_n_features_ entries, every
\* output column in the span of feature i is traced to Feature Spec i and
\* its selector, and a column transform returns comes from a table column
\* that selector names.
C6_Provenance ==
    lastfit = "return" =>
       /\ X_features_(self).status = "return"
       /\ X_n_features_(self) = Return(PyInt(Len(X_features_(self).value.v)))
       /\ \A i \in 0..(Len(self.features) - 1) :
             \A c \in At(feature_indices_(self).value, i) ..
                      (At(feature_indices_(self).value, i + 1) - 1) :
                /\ At(X_features_(self).value, c) = self.features[i + 1]
                /\ At(X_columns_(self).value, c) = self.features[i + 1].columns
       /\ (call.op = "transform" /\ ret.status = "return") =>
             \A c \in 0..(Len(ret.value.cols) - 1) :
                \E k \in 1..Len(SelectorNames(At(X_columns_(self).value, c))) :
                   SelectorNames(At(X_columns_(self).value, c))[k] = ret.value.cols[c + 1].col

\* the three output columns of ("b", None), (["b", "a"], None)
C6_Witness ==
    /\ lastfit = "return"
    /\ call.op = "transform"
    /\ ret.status = "return"
    /\ self.features = <<Tuple(Str("b"), NoneVal), Tuple(List(<<"b", "a">>), NoneVal)>>
    /\ X_columns_(self) =
          Return(Array(<<Str("b"), List(<<"b", "a">>), List(<<"b", "a">>)>>))
    /\ ret.value.cols = <<Col("b", 0), Col("b", 0), Col("a", 0)>>

\* the per-feature outputs of the transform call that returned
Extracted == Extract(self.features, 1, call.X, <<>>).value

\* C7: the output of transform is sparse exactly when the sparse flag is
\* set and some feature output is sparse, dense otherwise, and holds the
\* features' columns in Feature Spec order.
C7_OutputRepresentation ==
    (call.op = "transform" /\ ret.status = "return") =>
       /\ issparse(ret.value) <=>
             (self.sparse /\ \E i \in 1..Len(Extracted) : issparse(Extracted[i]))
       /\ ~issparse(ret.value) => ret.value.tag = "ndarray"
       /\ ret.value.cols = Concat([i \in 1..Len(Extracted) |-> Extracted[i].cols])

\* a dense vector and a sparse one-hot block combined under sparse=True
C7_Witness ==
    /\ call.op = "transform"
    /\ ret.status = "return"
    /\ self.sparse
    /\ Len(self.features) = 2
    /\ ~issparse(Extracted[1])
    /\ issparse(Extracted[2])
    /\ issparse(ret.value)
    /\ ret.value.cols = <<Col("b", 0), Col("a", 1), Col("a", 2)>>

\* the mapper has no Target Spec
NoTargetSpec == ~HasAttr(self, "y_feature") \/ self.y_feature.tag = "None"

\* C8, as stated: with no Target Spec extract_y returns None when no target
\* is passed and raises ValueError when one is; with a Target Spec it never
\* returns None, reads y (a frame, or a series as a frame) or else X, and
\* fails an assertion when X is then no DataFrame; it never changes the
\* mapper.
C8_ExtractY ==
    [][\A X \in Inputs, y \in Targets :
          ExtractY(X, y) =>
             /\ self' = self
             /\ (NoTargetSpec /\ y.kind = "None") => ret' = Return(NoneVal)
             /\ (NoTargetSpec /\ y.kind # "None") => ret' = Raise("ValueError")
             /\ ~NoTargetSpec =>
                   /\ ret' # Return(NoneVal)
                   /\ (y.kind = "None" /\ X.kind # "DataFrame")
                         => ret' = Raise("AssertionError")
                   /\ ret'.status = "return" =>
                         ret'.value.cols[1].col = SelectorNames(self.y_feature.columns)[1]
                   /\ (ret'.status = "return" /\ y.kind = "None") =>
                         ret'.value.card = X.card
                   /\ (ret'.status = "return" /\ y.kind # "None") =>
                         ret'.value.card = y.card]_vars

\* a step leaves what transform returns as it was: the object is untouched,
\* or transform returns on every input what it returned before the step
SameTransform ==
    \/ self' = self
    \/ \A X \in Inputs : Result(transform(self', X)) = Result(transform(self, X))

\* C8 on the mappers that have the attribute y_feature (every Mapper built
\* by __init__): the same statement, which holds there.
C8_ExtractY_Constructed ==
    [][\A X \in Inputs, y \in Targets :
          (ExtractY(X, y) /\ HasAttr(self, "y_feature")) =>
             /\ self' = self
             /\ (NoTargetSpec /\ y.kind = "None") => ret' = Return(NoneVal)
             /\ (NoTargetSpec /\ y.kind # "None") => ret' = Raise("ValueError")
             /\ ~NoTargetSpec =>
                   /\ ret' # Return(NoneVal)
                   /\ (y.kind = "None" /\ X.kind # "DataFrame")
                         => ret' = Raise("AssertionError")
                   /\ ret'.status = "return" =>
                         ret'.value.cols[1].col = SelectorNames(self.y_feature.columns)[1]
                   /\ (ret'.status = "return" /\ y.kind = "None") =>
                         ret'.value.card = X.card
                   /\ (ret'.status = "return" /\ y.kind # "None") =>
                         ret'.value.card = y.card]_vars

\* C9, as stated: a transform call leaves feature_widths_ and every
\* transformer's fitted state as they were, a transform repeated on the same
\* input returns the same output, and the output of transform depends only
\* on the most recent successful fit and the input: on a Mapper that has
\* been fitted, a call that is not a successful fit (a transform, a property
\* read, extract_y, a fit that raises) leaves what transform returns on
\* every input as it was.
C9_OnlySuccessfulFit ==
    [][/\ call'.op = "transform" =>
             /\ self' = self
             /\ (call.op = "transform" /\ call.X = call'.X) => ret' = ret
       /\ (everfit /\ ~(call'.op = "fit" /\ ret'.status = "return")) => SameTransform]_vars

\* C9 without its last clause, which holds: a transform call leaves
\* feature_widths_ and every transformer's fitted state as they were, a
\* transform repeated on the same input returns the same output, and no call
\* but fit changes what transform returns. (What a fit call that raises
\* leaves behind is the subject of C9_OnlySuccessfulFit.)
C9_TransformReadOnly ==
    [][/\ call'.op = "transform" =>
             /\ self' = self
             /\ (call.op = "transform" /\ call.X = call'.X) => ret' = ret
       /\ (everfit /\ call'.op # "fit") => SameTransform]_vars

\* C10, as stated: a restored Mapper has its Feature Specs, its Target Spec
\* and its sparse flag defined, and fit and extract_y on it behave as on a
\* constructed Mapper (they do not fail on a missing attribute).
C10_RestoredAsConstructed ==
    origin = "__setstate__" =>
       /\ {"features", "y_feature", "sparse"} \subseteq DOMAIN self
       /\ call.op \in {"fit", "extract_y"} => ret.exc # "AttributeError"

====
